---- MODULE Spec2Model ----
(***************************************************************************)
(* A model of labelgen's pipeline core:                                    *)
(*   - the LLM dispatcher of superpipe/llm.py (four provider functions and *)
(*     the two routers in front of them);                                  *)
(*   - Pipeline.apply / evaluate / update_params and the statistics        *)
(*     aggregation of labelkit/pipeline.py.                                *)
(* Text is a sequence of one-character strings, so that "the error         *)
(* contains the raw text" is a statement about sub-sequences.  Python      *)
(* values that can be None are tagged records (kind, val).  Money and time *)
(* are counted in whole units.                                             *)
(***************************************************************************)
EXTENDS Integers, Sequences, FiniteSets

VARIABLES
    \* ---- dispatcher (superpipe/llm.py)
    env,          \* what the call meets: model, client resolution, provider behaviour
    outcome,      \* the last dispatcher call: function, returned response or raised error
    \* ---- pipeline (labelkit/pipeline.py)
    steps,        \* Pipeline.steps
    plan,         \* for each step, the row positions on which its call fails
    evaluation_fn,\* Pipeline.evaluation_fn
    data,         \* Pipeline.data
    score,        \* Pipeline.score
    statistics,   \* Pipeline.statistics
    stepStats,    \* step.statistics of every step
    applied,      \* the data object handed to the last apply, as the steps left it
    lastCall,     \* the last Pipeline method called and how it ended
    \* ---- update_params
    lastParams,   \* the argument of the last Pipeline.update_params
    received      \* the update_params calls the steps received, in order

vars == <<env, outcome, steps, plan, evaluation_fn, data, score, statistics,
          stepStats, applied, lastCall, lastParams, received>>

\* ------------------------------------------------------------------ bounds
MaxTextLen == 2      \* longest provider text
MaxTokens == 1       \* largest token count a reply reports
MaxElapsed == 2      \* longest provider call, in clock ticks
MaxSteps == 2        \* longest step list
MaxRows == 2         \* largest table

\* ------------------------------------------------------------ Python values
None == [kind |-> "none", val |-> <<>>]
Str(s) == [kind |-> "str", val |-> s]
Dict(items) == [kind |-> "dict", val |-> items]
Num(digits) == [kind |-> "num", val |-> digits]

\* str(v) as an f-string renders it
Render(v) == IF v.kind = "none" THEN <<"N", "o", "n", "e">> ELSE v.val

Contains(s, sub) ==
    \E i \in 0..(Len(s) - Len(sub)) : SubSeq(s, i + 1, i + Len(sub)) = sub

RECURSIVE SeqsUpTo(_, _)
SeqsUpTo(S, n) ==
    IF n = 0 THEN {<<>>}
    ELSE LET shorter == SeqsUpTo(S, n - 1)
         IN shorter \cup {Append(s, c) : s \in shorter, c \in S}

\* ------------------------------------------------------------- json.loads
Chars == {"{", "}", "1", "x"}
Texts == SeqsUpTo(Chars, MaxTextLen)

\* json.loads on texts over Chars: "{}" is the empty object, a run of digits
\* is a number, everything else (the empty text too) is a JSONDecodeError.
IsJson(t) ==
    \/ t = <<"{", "}">>
    \/ Len(t) > 0 /\ \A i \in 1..Len(t) : t[i] = "1"

json_loads(t) == IF t = <<"{", "}">> THEN Dict(<<>>) ELSE Num(t)

\* ------------------------------------------------------------- dispatcher
Models == {"gpt35", "claude3_haiku"}
AnthropicModels == {"claude3_haiku"}

LLMResponse ==
    [input_tokens |-> 0, output_tokens |-> 0, input_cost |-> 0, output_cost |-> 0,
     success |-> FALSE, error |-> None, latency |-> 0, content |-> Str(<<>>)]

StructuredLLMResponse == [LLMResponse EXCEPT !.content = Dict(<<>>)]

\* price per token, (input, output), of the pricing table
Price == [m \in Models |-> IF m = "gpt35" THEN <<1, 2>> ELSE <<3, 4>>]

get_cost(input_tokens, output_tokens, model) ==
    <<input_tokens * Price[model][1], output_tokens * Price[model][2]>>

\* What the provider's create() does: it raises an exception whose str() is
\* msg, or it returns a reply with usage data (or none) and a list of
\* choices / content blocks (possibly empty) whose first text is a string or
\* None.  Either way it takes `elapsed` ticks.
NoUsage == [present |-> FALSE, input_tokens |-> 0, output_tokens |-> 0]
Usages ==
    {NoUsage} \cup
    {[present |-> TRUE, input_tokens |-> i, output_tokens |-> o] :
        i \in 0..MaxTokens, o \in 0..MaxTokens}
Messages == {<<>>, <<"t", "i", "m", "e", "o", "u", "t">>}
Raising ==
    {[raises |-> TRUE, msg |-> m, elapsed |-> t, usage |-> NoUsage, items |-> <<>>] :
        m \in Messages, t \in 1..MaxElapsed}
Replies ==
    {[raises |-> FALSE, msg |-> <<>>, elapsed |-> t, usage |-> u, items |-> it] :
        t \in 1..MaxElapsed, u \in Usages,
        it \in {<<>>, <<None>>} \cup {<<Str(x)>> : x \in Texts}}
Behaviours == Raising \cup Replies

Returned(response) == [raised |-> "", response |-> response, calls |-> 1]
Raised(exc, calls) == [raised |-> exc, response |-> None, calls |-> calls]

FailedToParse ==
    <<"F", "a", "i", "l", "e", "d", " ", "t", "o", " ", "p", "a", "r", "s", "e",
      " ", "j", "s", "o", "n", ":", " ", "$">>
AttributeErrorText == <<"n", "o", " ", "u", "s", "a", "g", "e">>
IndexErrorText == <<"l", "i", "s", "t", " ", "i", "n", "d", "e", "x">>
TypeErrorText == <<"n", "o", "t", " ", "s", "t", "r">>
JSONDecodeErrorText == <<"E", "x", "p", "e", "c", "t", "i", "n", "g">>

\* except Exception as e, unstructured: the error is str(e)
ExceptPlain(response, e) ==
    Returned([response EXCEPT !.success = FALSE, !.error = Str(e)])

\* a variant that always reports str(e)
ExceptStructuredStrE(response, e, b) ==
    Returned([response EXCEPT !.success = FALSE, !.error = Str(e)])

\* except Exception as e, structured: str(e) when the call itself raised
\* (res is None), else the reply's first text is formatted into the message;
\* on a reply with no items that lookup raises IndexError inside the handler.
ExceptStructured(response, e, b) ==
    IF b.raises
    THEN Returned([response EXCEPT !.success = FALSE, !.error = Str(e)])
    ELSE IF b.items = <<>>
         THEN Raised("IndexError", 1)
         ELSE Returned([response EXCEPT
                  !.success = FALSE,
                  !.error = Str(FailedToParse \o Render(b.items[1]))])

\* the try block of the two unstructured functions
TryPlain(model, b) ==
    LET r0 == LLMResponse
        r1 == [r0 EXCEPT !.latency = b.elapsed]
        cost == get_cost(b.usage.input_tokens, b.usage.output_tokens, model)
        r2 == [r1 EXCEPT !.input_tokens = b.usage.input_tokens,
                         !.output_tokens = b.usage.output_tokens,
                         !.input_cost = cost[1], !.output_cost = cost[2]]
    IN  IF b.raises THEN ExceptPlain(r0, b.msg)
        ELSE IF ~b.usage.present THEN ExceptPlain(r1, AttributeErrorText)
        ELSE IF b.items = <<>> THEN ExceptPlain(r2, IndexErrorText)
        ELSE Returned([r2 EXCEPT !.content = b.items[1], !.success = TRUE])

\* the try block of the two structured functions
TryStructured(model, b) ==
    LET r0 == StructuredLLMResponse
        r1 == [r0 EXCEPT !.latency = b.elapsed]
        cost == get_cost(b.usage.input_tokens, b.usage.output_tokens, model)
        r2 == [r1 EXCEPT !.input_tokens = b.usage.input_tokens,
                         !.output_tokens = b.usage.output_tokens,
                         !.input_cost = cost[1], !.output_cost = cost[2]]
    IN  IF b.raises THEN ExceptStructured(r0, b.msg, b)
        ELSE IF ~b.usage.present THEN ExceptStructured(r1, AttributeErrorText, b)
        ELSE IF b.items = <<>> THEN ExceptStructured(r2, IndexErrorText, b)
        ELSE IF b.items[1] = None THEN ExceptStructured(r2, TypeErrorText, b)
        ELSE IF ~IsJson(b.items[1].val)
             THEN ExceptStructured(r2, JSONDecodeErrorText, b)
        ELSE Returned([r2 EXCEPT !.content = json_loads(b.items[1].val),
                                 !.success = TRUE])

get_llm_response_anthropic(model, client, b) ==
    IF ~client THEN Raised("ValueError: Unsupported model", 0)
    ELSE TryPlain(model, b)

\* a variant without the client check: the call on no client fails inside try
get_llm_response_openai_unchecked(model, client, b) ==
    IF ~client THEN ExceptPlain(LLMResponse, AttributeErrorText)
    ELSE TryPlain(model, b)

get_llm_response_openai(model, client, b) ==
    IF ~client THEN Raised("ValueError: Unsupported model", 0)
    ELSE TryPlain(model, b)

get_structured_llm_response_anthropic(model, client, b) ==
    IF ~client THEN Raised("ValueError: Unsupported model", 0)
    ELSE TryStructured(model, b)

get_structured_llm_response_openai(model, client, b) ==
    IF ~client THEN Raised("ValueError: Unsupported model", 0)
    ELSE TryStructured(model, b)

get_llm_response(model, client, b) ==
    IF model \in AnthropicModels
    THEN get_llm_response_anthropic(model, client, b)
    ELSE get_llm_response_openai(model, client, b)

get_structured_llm_response(model, client, b) ==
    IF model \in AnthropicModels
    THEN get_structured_llm_response_anthropic(model, client, b)
    ELSE get_structured_llm_response_openai(model, client, b)

\* ------------------------------------------------------ steps and their data
\* A step: its name, whether it is an LLMStep, and (an LLMStep's) model.
StepKinds ==
    {[name |-> "extract", llm |-> TRUE, model |-> "gpt35"],
     [name |-> "label", llm |-> TRUE, model |-> "gpt35"],
     [name |-> "rank", llm |-> TRUE, model |-> "claude3_haiku"],
     [name |-> "clean", llm |-> FALSE, model |-> ""]}

\* step lists of at most MaxSteps steps with pairwise different names
StepLists ==
    {l \in SeqsUpTo(StepKinds, MaxSteps) :
        \A i, j \in 1..Len(l) : l[i].name = l[j].name => i = j}

\* Data: a table (a DataFrame: a sequence of rows), a single record (a dict:
\* one row) or nothing.  A row maps the name of every step that has written
\* its result __<name>__ to that result.
NoData == [kind |-> "none", rows |-> <<>>]
Table(n) == [kind |-> "table", rows |-> [i \in 1..n |-> <<>>]]
Record == [kind |-> "record", rows |-> <<(<<>>)>>]
Inputs == {Record} \cup {Table(n) : n \in 1..MaxRows}

\* row with row[name] set to v
Put(row, name, v) ==
    [k \in DOMAIN row \cup {name} |-> IF k = name THEN v ELSE row[k]]

\* The rows on which a step's call can be made to fail: none, the odd ones,
\* the even ones, all.
FailPatterns ==
    {{}, {i \in 1..MaxRows : i % 2 = 1}, {i \in 1..MaxRows : i % 2 = 0}, 1..MaxRows}

\* the provider behaviours a step meets: a reply in good order, or a timeout
OkReply ==
    [raises |-> FALSE, msg |-> <<>>, elapsed |-> 1,
     usage |-> [present |-> TRUE, input_tokens |-> 2, output_tokens |-> 1],
     items |-> <<Str(<<"1">>)>>]
Timeout ==
    [raises |-> TRUE, msg |-> <<"t", "i", "m", "e", "o", "u", "t">>, elapsed |-> 1,
     usage |-> NoUsage, items |-> <<>>]

StepStatistics ==
    [input_tokens |-> 0, output_tokens |-> 0, input_cost |-> 0, output_cost |-> 0,
     num_success |-> 0, num_failure |-> 0, total_latency |-> 0]

\* the response step k gets for row i
StepResponse(sts, pl, k, i) ==
    get_llm_response(sts[k].model, TRUE,
                     IF i \in pl[k] THEN Timeout ELSE OkReply).response

\* Step.apply on row i: writes the step's namespaced result
StepApplyRow(sts, pl, k, i, row) ==
    IF sts[k].llm
    THEN Put(row, sts[k].name, [success |-> StepResponse(sts, pl, k, i).success])
    ELSE Put(row, sts[k].name, [success |-> i \notin pl[k]])

\* Step.apply on the data: once per row
StepApply(sts, pl, k, d) ==
    [d EXCEPT !.rows = [i \in 1..Len(d.rows) |-> StepApplyRow(sts, pl, k, i, d.rows[i])]]

RECURSIVE StepStatsUpTo(_, _, _, _)
\* LLMStep.statistics after the calls for rows 1..n of one apply
StepStatsUpTo(sts, pl, k, n) ==
    IF n = 0 THEN StepStatistics
    ELSE LET s == StepStatsUpTo(sts, pl, k, n - 1)
             r == StepResponse(sts, pl, k, n)
         IN  [input_tokens |-> s.input_tokens + r.input_tokens,
              output_tokens |-> s.output_tokens + r.output_tokens,
              input_cost |-> s.input_cost + r.input_cost,
              output_cost |-> s.output_cost + r.output_cost,
              num_success |-> s.num_success + (IF r.success THEN 1 ELSE 0),
              num_failure |-> s.num_failure + (IF r.success THEN 0 ELSE 1),
              total_latency |-> s.total_latency + r.latency]

RECURSIVE RunSteps(_, _, _, _)
\* for step in self.steps: step.apply(data, verbose), steps 1..k
RunSteps(sts, pl, k, d) ==
    IF k = 0 THEN d ELSE StepApply(sts, pl, k, RunSteps(sts, pl, k - 1, d))

\* ------------------------------------------------------ PipelineStatistics
EmptyDict == [m \in {} |-> 0]
PipelineStatistics ==
    [input_tokens |-> EmptyDict, output_tokens |-> EmptyDict,
     input_cost |-> EmptyDict, output_cost |-> EmptyDict,
     num_success |-> 0, num_failure |-> 0, total_latency |-> 0]

\* defaultdict: d[m], zero when m is absent
Get(d, m) == IF m \in DOMAIN d THEN d[m] ELSE 0
\* d[m] += v
AddTo(d, m, v) ==
    [k \in DOMAIN d \cup {m} |-> IF k = m THEN Get(d, m) + v ELSE d[k]]

RECURSIVE CountTrue(_)
CountTrue(mask) ==
    IF mask = <<>> THEN 0
    ELSE (IF Head(mask) THEN 1 ELSE 0) + CountTrue(Tail(mask))

\* a variant whose mask is the step's own flags, not ANDed with the mask so far
AggregateStepOwnFlags(acc, st, ss, d) ==
    IF ~st.llm THEN acc
    ELSE
    LET s == acc.statistics
        s1 == [s EXCEPT
                 !.input_tokens = AddTo(s.input_tokens, st.model, ss.input_tokens),
                 !.output_tokens = AddTo(s.output_tokens, st.model, ss.output_tokens),
                 !.input_cost = AddTo(s.input_cost, st.model, ss.input_cost),
                 !.output_cost = AddTo(s.output_cost, st.model, ss.output_cost),
                 !.total_latency = s.total_latency + ss.total_latency]
        mask == [i \in 1..Len(d.rows) |-> d.rows[i][st.name].success]
    IN  IF d.kind = "table"
        THEN [statistics |-> [s1 EXCEPT !.num_success = CountTrue(mask),
                                        !.num_failure = Len(d.rows) - CountTrue(mask)],
              success |-> mask]
        ELSE [statistics |-> [s1 EXCEPT !.num_success = IF mask[1] THEN 1 ELSE 0],
              success |-> mask]

\* One pass of the loop of _aggregate_statistics: acc is the statistics and
\* the success mask so far, st the step, ss its statistics, d the data.
AggregateStep(acc, st, ss, d) ==
    IF ~st.llm THEN acc
    ELSE
    LET s == acc.statistics
        s1 == [s EXCEPT
                 !.input_tokens = AddTo(s.input_tokens, st.model, ss.input_tokens),
                 !.output_tokens = AddTo(s.output_tokens, st.model, ss.output_tokens),
                 !.input_cost = AddTo(s.input_cost, st.model, ss.input_cost),
                 !.output_cost = AddTo(s.output_cost, st.model, ss.output_cost),
                 !.total_latency = s.total_latency + ss.total_latency]
        mask == [i \in 1..Len(d.rows) |->
                    acc.success[i] /\ d.rows[i][st.name].success]
    IN  IF d.kind = "table"
        THEN [statistics |-> [s1 EXCEPT !.num_success = CountTrue(mask),
                                        !.num_failure = Len(d.rows) - CountTrue(mask)],
              success |-> mask]
        ELSE [statistics |-> [s1 EXCEPT !.num_success = IF mask[1] THEN 1 ELSE 0],
              success |-> mask]

RECURSIVE AggregateLoop(_, _, _, _, _)
\* the loop over steps 1..k, from the statistics `start` and an all-true mask
AggregateLoop(start, sts, sstats, k, d) ==
    IF k = 0
    THEN [statistics |-> start, success |-> [i \in 1..Len(d.rows) |-> TRUE]]
    ELSE AggregateStep(AggregateLoop(start, sts, sstats, k - 1, d),
                       sts[k], sstats[k], d)

\* a variant that keeps adding to the statistics of the previous apply
aggregate_statistics_carried(old, sts, sstats, d) ==
    AggregateLoop(old, sts, sstats, Len(sts), d).statistics

\* Pipeline._aggregate_statistics: the new self.statistics, built on a fresh
\* PipelineStatistics whatever the old one was
aggregate_statistics(old, sts, sstats, d) ==
    AggregateLoop(PipelineStatistics, sts, sstats, Len(sts), d).statistics

\* ---------------------------------------------------------------- Pipeline
NoFn == "None"
EvalFns == {"all_ok", "never"}

\* evaluation_fn(row): "all_ok" holds of a row all of whose step results
\* succeeded, "never" of no row
CallFn(fn, row) ==
    IF fn = "all_ok" THEN \A n \in DOMAIN row : row[n].success ELSE FALSE

\* how a Pipeline method ended
Ended(op, raised, report) ==
    [op |-> op, raised |-> raised, report |-> report]

\* a variant without the check that a table has been processed
evaluate_unchecked(arg, self_fn, self_data, self_score) ==
    LET fn == IF arg # NoFn THEN arg ELSE self_fn
        n == Len(self_data.rows)
        results == [i \in 1..n |-> CallFn(fn, self_data.rows[i])]
    IN  IF fn = NoFn
        THEN [score |-> self_score,
              ended |-> Ended("evaluate", "", "No evaluation function provided")]
        ELSE IF self_data.kind # "table"
        THEN [score |-> self_score,
              ended |-> Ended("evaluate", "AttributeError", "")]
        ELSE [score |-> Num(<<CountTrue(results), n>>),
              ended |-> Ended("evaluate", "", "")]

\* Pipeline.evaluate(evaluation_fn) on a pipeline with the given evaluation_fn,
\* data and score: the new score and how the call ended.  Line 82 needs a
\* function to call and a table to call it on.
evaluate(arg, self_fn, self_data, self_score) ==
    LET fn == IF arg # NoFn THEN arg ELSE self_fn
        n == Len(self_data.rows)
        results == [i \in 1..n |-> CallFn(fn, self_data.rows[i])]
    IN  IF fn = NoFn
        THEN [score |-> self_score,
              ended |-> Ended("evaluate", "", "No evaluation function provided")]
        ELSE IF self_data.kind = "none"
        THEN [score |-> self_score,
              ended |-> Ended("evaluate", "", "No data provided")]
        ELSE IF self_data.kind # "table"
        THEN [score |-> self_score,
              ended |-> Ended("evaluate", "AttributeError", "")]
        ELSE [score |-> Num(<<CountTrue(results), n>>),
              ended |-> Ended("evaluate", "", "")]

\* Pipeline.__init__(steps, evaluation_fn), and the rows on which the calls of
\* each step are going to fail
PipelineInit(sts, fn) ==
    /\ steps = sts
    /\ plan \in [1..Len(sts) -> FailPatterns]
    /\ evaluation_fn = fn
    /\ data = NoData
    /\ score = None
    /\ statistics = PipelineStatistics
    /\ stepStats = [k \in 1..Len(steps) |-> StepStatistics]
    /\ applied = NoData
    /\ lastCall = Ended("__init__", "", "")

\* Pipeline.apply(data): every LLMStep starts its statistics afresh and
\* counts its calls of this run
Apply(d) ==
    LET after == RunSteps(steps, plan, Len(steps), d)
        ss == [k \in 1..Len(steps) |->
                  IF steps[k].llm
                  THEN StepStatsUpTo(steps, plan, k, Len(d.rows))
                  ELSE StepStatistics]
    IN  /\ stepStats' = ss
        /\ statistics' = aggregate_statistics(statistics, steps, ss, after)
        /\ applied' = after
        /\ data' = IF after.kind = "table" THEN after ELSE data
        /\ score' = IF after.kind = "table" /\ evaluation_fn # NoFn
                    THEN evaluate(NoFn, evaluation_fn, after, score).score
                    ELSE score
        /\ lastCall' = Ended("apply", "", "")
        /\ UNCHANGED <<steps, plan, evaluation_fn>>

\* Pipeline.evaluate(evaluation_fn)
Evaluate(arg) ==
    LET r == evaluate(arg, evaluation_fn, data, score)
    IN  /\ score' = r.score
        /\ lastCall' = r.ended
        /\ UNCHANGED <<steps, plan, evaluation_fn, data, statistics, stepStats, applied>>

\* ----------------------------------------------------------- update_params
\* the parameter mappings a caller passes: temperature and / or top_p
ParamMaps ==
    UNION {{m \in [K -> {1, 2, 9}] :
               /\ "temperature" \in K => m["temperature"] \in {2, 9}
               /\ "top_p" \in K => m["top_p"] = 1} :
           K \in SUBSET {"temperature", "top_p"}}
\* the argument of Pipeline.update_params: entries for "global" and for steps
ParamsArgs ==
    UNION {[E -> ParamMaps] : E \in SUBSET {"global", "extract", "clean"}}

\* params.get(name, {})
GetOr(params, name) == IF name \in DOMAIN params THEN params[name] ELSE <<>>

\* a variant in which the first mapping wins
MergeFirstWins(a, b) ==
    [k \in DOMAIN a \cup DOMAIN b |-> IF k \in DOMAIN a THEN a[k] ELSE b[k]]

\* {**a, **b}
Merge(a, b) ==
    [k \in DOMAIN a \cup DOMAIN b |-> IF k \in DOMAIN b THEN b[k] ELSE a[k]]

\* what Pipeline.update_params hands to a step
StepParams(params, name) ==
    LET global_params == GetOr(params, "global")
        step_params == GetOr(params, name)
    IN  Merge(global_params, step_params)

RECURSIVE update_params(_, _, _)
\* the loop of Pipeline.update_params over steps 1..k: the calls it makes
update_params(sts, params, k) ==
    IF k = 0 THEN <<>>
    ELSE Append(update_params(sts, params, k - 1),
                [step |-> sts[k].name, params |-> StepParams(params, sts[k].name)])

UpdateParams(params) ==
    /\ received' = update_params(steps, params, Len(steps))
    /\ lastParams' = params
    /\ lastCall' = Ended("update_params", "", "")
    /\ UNCHANGED <<steps, plan, evaluation_fn, data, score, statistics, stepStats,
                   applied, env, outcome>>

\* ------------------------------------------------------- dispatcher calls
Envs == [model : Models, client : BOOLEAN, b : Behaviours]

Call(fn, result) ==
    /\ outcome' = [fn |-> fn, result |-> result]
    /\ UNCHANGED <<env, steps, plan, evaluation_fn, data, score, statistics,
                   stepStats, applied, lastCall, lastParams, received>>

CallGetLlmResponse ==
    Call("get_llm_response", get_llm_response(env.model, env.client, env.b))
CallGetLlmResponseAnthropic ==
    Call("get_llm_response_anthropic",
         get_llm_response_anthropic(env.model, env.client, env.b))
CallGetLlmResponseOpenai ==
    Call("get_llm_response_openai",
         get_llm_response_openai(env.model, env.client, env.b))
CallGetStructuredLlmResponse ==
    Call("get_structured_llm_response",
         get_structured_llm_response(env.model, env.client, env.b))
CallGetStructuredLlmResponseAnthropic ==
    Call("get_structured_llm_response_anthropic",
         get_structured_llm_response_anthropic(env.model, env.client, env.b))
CallGetStructuredLlmResponseOpenai ==
    Call("get_structured_llm_response_openai",
         get_structured_llm_response_openai(env.model, env.client, env.b))

\* ------------------------------------------------------- specifications
NoCall == [fn |-> "", result |-> Raised("", 0)]
DispIdle == env = [model |-> "gpt35", client |-> TRUE, b |-> OkReply] /\ outcome = NoCall
ParamsIdle == lastParams = <<>> /\ received = <<>>

\* the pipeline: apply and evaluate
Init ==
    /\ \E sts \in StepLists, fn \in {NoFn, "all_ok"} : PipelineInit(sts, fn)
    /\ DispIdle /\ ParamsIdle

Next ==
    \/ \E d \in Inputs : Apply(d) /\ UNCHANGED <<env, outcome, lastParams, received>>
    \/ \E f \in {NoFn} \cup EvalFns :
          Evaluate(f) /\ UNCHANGED <<env, outcome, lastParams, received>>

Spec == Init /\ [][Next]_vars

\* the pipeline: update_params
ParamsInit ==
    /\ \E sts \in StepLists : PipelineInit(sts, NoFn)
    /\ plan = [k \in 1..Len(steps) |-> {}]
    /\ DispIdle /\ ParamsIdle

ParamsNext == \E params \in ParamsArgs : UpdateParams(params)

ParamsSpec == ParamsInit /\ [][ParamsNext]_vars

\* the dispatcher: one environment, any of the six functions called on it
DispInit ==
    /\ env \in Envs
    /\ outcome = NoCall
    /\ PipelineInit(<<>>, NoFn) /\ ParamsIdle

DispNext ==
    \/ CallGetLlmResponse
    \/ CallGetLlmResponseAnthropic
    \/ CallGetLlmResponseOpenai
    \/ CallGetStructuredLlmResponse
    \/ CallGetStructuredLlmResponseAnthropic
    \/ CallGetStructuredLlmResponseOpenai

DispSpec == DispInit /\ [][DispNext]_vars

\* ================================================================ claims
\* ---------------------------------------------------------- dispatcher
Dispatchers ==
    {"get_llm_response_openai", "get_llm_response_anthropic",
     "get_structured_llm_response_openai", "get_structured_llm_response_anthropic"}
StructuredDispatchers ==
    {"get_structured_llm_response_openai", "get_structured_llm_response_anthropic"}

\* the provider call failed: it raised, or its reply is malformed
ProviderFailed == env.b.raises \/ ~env.b.usage.present \/ env.b.items = <<>>

\* the content a response is constructed with
DefaultContent(fn) == IF fn \in StructuredDispatchers THEN Dict(<<>>) ELSE Str(<<>>)

\* C2: with a client resolved, no dispatcher function lets an exception
\* escape: whatever the provider call does (raises, or returns a reply with
\* no usage data or with no choices / content blocks), a response is
\* returned, and on a failed provider call it has success false and error set.
C2_NoExceptionEscapes ==
    (outcome.fn \in Dispatchers /\ env.client) =>
        /\ outcome.result.raised = ""
        /\ ProviderFailed =>
              /\ ~outcome.result.response.success
              /\ outcome.result.response.error # None

\* C3: with no client resolved, each dispatcher function raises "Unsupported
\* model" at once: no provider call is made and no response is returned.
C3_UnsupportedModelRaises ==
    (outcome.fn \in Dispatchers /\ ~env.client) =>
        /\ outcome.result.raised = "ValueError: Unsupported model"
        /\ outcome.result.calls = 0
        /\ outcome.result.response = None

C3_Witness ==
    /\ outcome.fn = "get_llm_response_openai"
    /\ ~env.client
    /\ ~env.b.raises /\ env.b.usage.present /\ env.b.items # <<>>

\* C4: every returned response has: success implies error is None; failure
\* implies content is the default ("" or {}) and error is a non-empty string.
C4_ResponseInvariant ==
    (outcome.fn \in Dispatchers /\ outcome.result.raised = "" /\ outcome.result.calls = 1) =>
        LET r == outcome.result.response
        IN  /\ r.success => r.error = None
            /\ ~r.success =>
                  /\ r.content = DefaultContent(outcome.fn)
                  /\ r.error.kind = "str"
                  /\ r.error.val # <<>>

\* C5: structured dispatch on a reply whose text is not JSON returns a
\* response with success false, the raw text inside error and content left
\* the empty mapping; nothing is raised.
C5_ParseFailureContained ==
    (/\ outcome.fn \in StructuredDispatchers
     /\ env.client
     /\ ~env.b.raises
     /\ env.b.items # <<>>
     /\ env.b.items[1].kind = "str"
     /\ ~IsJson(env.b.items[1].val)) =>
        /\ outcome.result.raised = ""
        /\ ~outcome.result.response.success
        /\ outcome.result.response.error.kind = "str"
        /\ Contains(outcome.result.response.error.val, env.b.items[1].val)
        /\ outcome.result.response.content = Dict(<<>>)

C5_Witness ==
    /\ outcome.fn = "get_structured_llm_response_anthropic"
    /\ env.client
    /\ ~env.b.raises
    /\ env.b.usage.present
    /\ env.b.items = <<Str(<<"{", "x">>)>>
    /\ ~outcome.result.response.success

\* C10: when the provider call raises, the failed response still carries the
\* time that elapsed up to the failure as its latency.
C10_LatencyOnFailure ==
    (/\ outcome.fn \in Dispatchers
     /\ env.client
     /\ env.b.raises
     /\ outcome.result.raised = "") =>
        outcome.result.response.latency = env.b.elapsed

\* ------------------------------------------------------------ pipeline
LLMSteps == {k \in 1..Len(steps) : steps[k].llm}

\* the rows of the data last applied whose every LLM step result succeeded
GoodRows ==
    {i \in 1..Len(applied.rows) :
        \A k \in LLMSteps : applied.rows[i][steps[k].name].success}

\* C1: after apply on a table of N rows with at least one LLM step,
\* num_success is the number of rows all of whose LLM step flags are true and
\* num_failure is N minus that; with a single LLM step failing on K rows,
\* num_failure = K and num_success = N - K; non-LLM steps do not count.
C1_SuccessCounts ==
    (applied.kind = "table" /\ LLMSteps # {}) =>
        /\ statistics.num_success = Cardinality(GoodRows)
        /\ statistics.num_failure = Len(applied.rows) - Cardinality(GoodRows)
        /\ \A k \in LLMSteps :
              LLMSteps = {k} =>
                 LET K == Cardinality(plan[k] \cap (1..Len(applied.rows)))
                 IN  /\ statistics.num_failure = K
                     /\ statistics.num_success = Len(applied.rows) - K

\* two LLM steps failing on different rows
C1_Witness ==
    /\ applied.kind = "table"
    /\ Len(applied.rows) = 2
    /\ Cardinality(LLMSteps) = 2
    /\ \E j, k \in LLMSteps : plan[j] = {1} /\ plan[k] = {2}
    /\ statistics.num_failure = 2

\* C6: after every apply that returns, whatever the steps and the shape of
\* the data, num_success + num_failure is the number of rows processed
\* (N for a table, 1 for a single record).
C6_CountsAddUp ==
    applied.kind # "none" =>
        statistics.num_success + statistics.num_failure = Len(applied.rows)

RECURSIVE SumOfSteps(_, _, _)
\* the sum of one quantity of the step statistics over the LLM steps among
\* steps 1..k whose model is in ms
SumOfSteps(field, ms, k) ==
    IF k = 0 THEN 0
    ELSE SumOfSteps(field, ms, k - 1)
         + (IF steps[k].llm /\ steps[k].model \in ms THEN stepStats[k][field] ELSE 0)

StepOrders(n) ==
    {p \in [1..n -> 1..n] : \A i, j \in 1..n : p[i] = p[j] => i = j}

\* C7: after any sequence of applies, the statistics are a fresh fold over
\* the step statistics as they stand: per model the sums over exactly the LLM
\* steps on that model, total_latency the sum over all LLM steps, nothing of
\* an earlier apply carried over, and the same for every order of the steps.
C7_FreshFold ==
    applied.kind # "none" =>
        /\ \A f \in {"input_tokens", "output_tokens", "input_cost", "output_cost"} :
              /\ DOMAIN statistics[f] = {steps[k].model : k \in LLMSteps}
              /\ \A m \in Models :
                    Get(statistics[f], m) = SumOfSteps(f, {m}, Len(steps))
        /\ statistics.total_latency = SumOfSteps("total_latency", Models, Len(steps))
        /\ \A p \in StepOrders(Len(steps)) :
              aggregate_statistics(PipelineStatistics,
                                   [k \in 1..Len(steps) |-> steps[p[k]]],
                                   [k \in 1..Len(steps) |-> stepStats[p[k]]],
                                   applied) = statistics

\* a second apply, on a smaller table than the first, with two LLM steps on
\* one model
C7_Witness ==
    /\ applied.kind = "record"
    /\ data.kind = "table"
    /\ Cardinality(LLMSteps) = 2
    /\ \A k \in LLMSteps : steps[k].model = "gpt35" /\ plan[k] = {}
    /\ statistics.input_tokens["gpt35"] = 4

\* C8: evaluate with no evaluation function (none supplied, none configured)
\* or with no table processed so far does not raise, evaluates nothing and
\* leaves score, data and statistics as they were.
C8_EvaluateSkipped ==
    [][\A f \in {NoFn} \cup EvalFns :
          (Evaluate(f) /\ ((f = NoFn /\ evaluation_fn = NoFn) \/ data.kind # "table")) =>
              /\ lastCall'.raised = ""
              /\ lastCall'.report # ""
              /\ score' = score
              /\ data' = data
              /\ statistics' = statistics]_vars

\* evaluate, with a function configured, after applies on single records only
C8_Witness ==
    /\ lastCall.op = "evaluate"
    /\ lastCall.report = "No data provided"
    /\ evaluation_fn # NoFn
    /\ applied.kind = "record"
    /\ score = None

\* ------------------------------------------------------- update_params
\* C9: update_params calls every step once, in list order, with global
\* merged with the step's own entry, the step's values winning; a step with
\* no entry gets the global mapping, a missing global counts as empty, and no
\* step gets a key that only another step's entry has.
C9_MergedParams ==
    lastCall.op = "update_params" =>
        /\ Len(received) = Len(steps)
        /\ \A k \in 1..Len(steps) :
              LET name == steps[k].name
                  own == IF name \in DOMAIN lastParams THEN lastParams[name] ELSE <<>>
                  glob == IF "global" \in DOMAIN lastParams
                          THEN lastParams["global"] ELSE <<>>
                  got == received[k].params
              IN  /\ received[k].step = name
                  /\ DOMAIN got = DOMAIN own \cup DOMAIN glob
                  /\ \A key \in DOMAIN own : got[key] = own[key]
                  /\ \A key \in DOMAIN glob \ DOMAIN own : got[key] = glob[key]
                  /\ name \notin DOMAIN lastParams => got = glob

\* the scenario of the spec: "extract" overrides the global temperature,
\* "clean" has no entry of its own
C9_Witness ==
    /\ lastCall.op = "update_params"
    /\ Len(steps) = 2
    /\ steps[1].name = "extract" /\ steps[2].name = "clean"
    /\ DOMAIN lastParams = {"global", "extract"}
    /\ lastParams["global"] = [k \in {"temperature"} |-> 2]
    /\ lastParams["extract"] = [k \in {"temperature", "top_p"} |-> IF k = "top_p" THEN 1 ELSE 9]
    /\ received[1].params["temperature"] = 9
    /\ received[2].params = lastParams["global"]

====
